---- MODULE Spec2Model ----
(***************************************************************************)
(* A model of sociology_paper_analyzer.py: the SociologyPaperAnalyzer      *)
(* class (taxonomies, regular-expression matching, the scorers, the        *)
(* citation extractor, the keyword ranker, the summarizer), its analyze    *)
(* and export_results methods and the main() pipeline.                     *)
(*                                                                         *)
(* A text is a sequence of one-character strings.  Regular expressions are *)
(* modelled by a small backtracking matcher (Ends, FindAll) that follows   *)
(* the semantics of Python's re module: leftmost match, alternatives and   *)
(* greedy repetitions tried in priority order, non-overlapping findall.    *)
(***************************************************************************)
EXTENDS Integers, Sequences, FiniteSets, TLC

(***************************************************************************)
(* Characters                                                              *)
(***************************************************************************)
LowerChars ==
  <<"a","b","c","d","e","f","g","h","i","j","k","l","m",
    "n","o","p","q","r","s","t","u","v","w","x","y","z">>

UpperChars ==
  <<"A","B","C","D","E","F","G","H","I","J","K","L","M",
    "N","O","P","Q","R","S","T","U","V","W","X","Y","Z">>

LowerSet == {LowerChars[i] : i \in DOMAIN LowerChars}

UpperSet == {UpperChars[i] : i \in DOMAIN UpperChars}

DigitSet == {"0","1","2","3","4","5","6","7","8","9"}

\* \s of the re module, restricted to the characters texts are built from
SpaceSet == {" ", "\n", "\t"}

\* \w of the re module: letters, digits and the underscore
WordSet == LowerSet \cup UpperSet \cup DigitSet \cup {"_"}

\* str.lower() on one character
LowerChar(c) ==
  IF c \in UpperSet
    THEN LowerChars[CHOOSE i \in DOMAIN UpperChars : UpperChars[i] = c]
    ELSE c

\* str.upper() on one character
UpperChar(c) ==
  IF c \in LowerSet
    THEN UpperChars[CHOOSE i \in DOMAIN LowerChars : LowerChars[i] = c]
    ELSE c

\* str.lower()
Lower(s) == <<>> \o [i \in DOMAIN s |-> LowerChar(s[i])]

\* str.upper()
Upper(s) == <<>> \o [i \in DOMAIN s |-> UpperChar(s[i])]

(***************************************************************************)
(* Regular expressions (re module).  A pattern is a record:                *)
(*   Str(s)        the literal string s (what re.escape(s) matches)        *)
(*   Cls(cs)       one character of the set cs                             *)
(*   WB            \b                                                      *)
(*   Cat(xs)       the patterns of xs one after the other                  *)
(*   Alt(xs)       x1|x2|..., tried in order                               *)
(*   Rep(x, m, n)  x{m,n}, greedy;  RepInf(x, m)  x{m,}, greedy            *)
(***************************************************************************)
Str(s) == [t |-> "str", s |-> s]

Cls(cs) == [t |-> "cls", cs |-> cs]

WB == [t |-> "wb"]

Cat(xs) == [t |-> "cat", xs |-> xs]

Alt(xs) == [t |-> "alt", xs |-> xs]

Rep(x, m, n) == [t |-> "rep", x |-> x, min |-> m, max |-> n, inf |-> FALSE]

RepInf(x, m) == [t |-> "rep", x |-> x, min |-> m, max |-> m, inf |-> TRUE]

Opt(x) == Rep(x, 0, 1)

\* is position i of text (the place before text[i]) a \b word boundary
AtWordBoundary(text, i) ==
  LET before == i > 1 /\ i - 1 <= Len(text) /\ text[i - 1] \in WordSet
      after  == i >= 1 /\ i <= Len(text) /\ text[i] \in WordSet
  IN  before # after

\* does the literal s match text at position i (ic: re.IGNORECASE)
LitAt(s, text, i, ic) ==
  /\ i + Len(s) - 1 <= Len(text)
  /\ LET sub == SubSeq(text, i, i + Len(s) - 1)
     IN  IF ic THEN Lower(sub) = Lower(s) ELSE sub = s

RECURSIVE Ends(_, _, _, _)
RECURSIVE EndsCat(_, _, _, _, _)
RECURSIVE EndsAlt(_, _, _, _, _)
RECURSIVE EndsRep(_, _, _, _, _, _, _)
RECURSIVE EndsEach(_, _, _, _, _, _)
RECURSIVE EndsMore(_, _, _, _, _, _, _, _)

\* The positions at which a match of pattern re starting at position i of
\* text can end (the position after its last character), in the order the
\* backtracking matcher tries them: the first is the match re.match finds.
Ends(re, text, i, ic) ==
  CASE re.t = "str" -> IF LitAt(re.s, text, i, ic) THEN <<i + Len(re.s)>> ELSE <<>>
    [] re.t = "cls" -> IF i <= Len(text) /\ text[i] \in re.cs THEN <<i + 1>> ELSE <<>>
    [] re.t = "wb"  -> IF AtWordBoundary(text, i) THEN <<i>> ELSE <<>>
    [] re.t = "cat" -> EndsCat(re.xs, 1, text, i, ic)
    [] re.t = "alt" -> EndsAlt(re.xs, 1, text, i, ic)
    [] re.t = "rep" -> EndsRep(re.x, re.min, re.max, re.inf, text, i, ic)

\* xs[k..] matched one after the other from position i
EndsCat(xs, k, text, i, ic) ==
  IF k > Len(xs) THEN <<i>>
  ELSE EndsEach(xs, k, Ends(xs[k], text, i, ic), 1, text, ic)

\* for each end e of xs[k], in order, the ends of xs[k+1..] from e
EndsEach(xs, k, es, j, text, ic) ==
  IF j > Len(es) THEN <<>>
  ELSE EndsCat(xs, k + 1, text, es[j], ic) \o EndsEach(xs, k, es, j + 1, text, ic)

\* the alternatives xs[k..], in order
EndsAlt(xs, k, text, i, ic) ==
  IF k > Len(xs) THEN <<>>
  ELSE Ends(xs[k], text, i, ic) \o EndsAlt(xs, k + 1, text, i, ic)

\* greedy x{min,max}: one more x first (if allowed), then stop (if allowed)
EndsRep(x, min, max, inf, text, i, ic) ==
  LET more == IF inf \/ max > 0
                THEN EndsMore(x, min, max, inf, Ends(x, text, i, ic), 1, text, ic)
                ELSE <<>>
      stop == IF min = 0 THEN <<i>> ELSE <<>>
  IN  more \o stop

\* for each end e of one more x, in order, the ends of the remaining repetitions
EndsMore(x, min, max, inf, es, j, text, ic) ==
  IF j > Len(es) THEN <<>>
  ELSE LET min1 == IF min > 0 THEN min - 1 ELSE 0
           max1 == IF max > 0 THEN max - 1 ELSE 0
       IN  EndsRep(x, min1, max1, inf, text, es[j], ic)
             \o EndsMore(x, min, max, inf, es, j + 1, text, ic)

RECURSIVE First(_, _)
RECURSIVE FirstCat(_, _, _)
RECURSIVE FirstAlt(_, _, _)

\* What a match of re can begin with: chars, the characters a match that
\* consumes something can consume first; nullable, whether a match can be
\* empty.  The scan skips the positions this rules out, as sre's search does
\* with the pattern's literal prefix or character set.
First(re, ic) ==
  CASE re.t = "str" ->
         IF re.s = <<>> THEN [nullable |-> TRUE, chars |-> {}]
         ELSE [nullable |-> FALSE,
               chars |-> IF ic THEN {LowerChar(re.s[1]), UpperChar(re.s[1])}
                               ELSE {re.s[1]}]
    [] re.t = "cls" -> [nullable |-> FALSE, chars |-> re.cs]
    [] re.t = "wb"  -> [nullable |-> TRUE, chars |-> {}]
    [] re.t = "cat" -> FirstCat(re.xs, 1, ic)
    [] re.t = "alt" -> FirstAlt(re.xs, 1, ic)
    [] re.t = "rep" ->
         IF ~re.inf /\ re.max = 0 THEN [nullable |-> TRUE, chars |-> {}]
         ELSE LET f == First(re.x, ic)
              IN  [nullable |-> f.nullable \/ re.min = 0, chars |-> f.chars]

FirstCat(xs, k, ic) ==
  IF k > Len(xs) THEN [nullable |-> TRUE, chars |-> {}]
  ELSE LET f == First(xs[k], ic)
       IN  IF f.nullable
             THEN LET g == FirstCat(xs, k + 1, ic)
                  IN  [nullable |-> g.nullable, chars |-> f.chars \cup g.chars]
             ELSE f

FirstAlt(xs, k, ic) ==
  IF k > Len(xs) THEN [nullable |-> FALSE, chars |-> {}]
  ELSE LET f == First(xs[k], ic)
           g == FirstAlt(xs, k + 1, ic)
       IN  [nullable |-> f.nullable \/ g.nullable, chars |-> f.chars \cup g.chars]

\* the positions of text at which some match of re starts
MatchStarts(re, text, ic) ==
  LET f == First(re, ic)
  IN  {j \in 1..(Len(text) + 1) :
         /\ f.nullable \/ (j <= Len(text) /\ text[j] \in f.chars)
         /\ Ends(re, text, j, ic) # <<>>}

RECURSIVE SpansFrom(_, _, _, _, _)
\* the matches the left-to-right scan takes from position i on: the leftmost
\* start at or after i, its first end, and on from there
SpansFrom(re, text, starts, i, ic) ==
  LET rest == {j \in starts : j >= i}
  IN  IF rest = {} THEN <<>>
      ELSE LET b == CHOOSE j \in rest : \A k \in rest : j <= k
               e == Ends(re, text, b, ic)[1]
           IN  <<<<b, e>>>> \o SpansFrom(re, text, starts, IF e = b THEN b + 1 ELSE e, ic)

\* re.finditer: the non-overlapping matches of re in text, left to right, as
\* <<start, end>> pairs (end is the position after the match)
FindSpans(re, text, ic) == SpansFrom(re, text, MatchStarts(re, text, ic), 1, ic)

\* re.findall(re, text) for a pattern without capturing groups
FindAll(re, text, ic) ==
  LET sp == FindSpans(re, text, ic)
  IN  [k \in DOMAIN sp |-> SubSeq(text, sp[k][1], sp[k][2] - 1)]

\* r'\b' + re.escape(keyword) + r'\b'
KeywordPattern(keyword) == Cat(<<WB, Str(keyword), WB>>)

\* len(re.findall(r'\b' + re.escape(keyword) + r'\b', text_lower))
CountIn(text_lower, keyword) ==
  Len(FindSpans(KeywordPattern(keyword), text_lower, FALSE))

\* the Matcher: the count the scorers take of keyword in text, which they
\* lower-case first (text_lower = text.lower())
MatchCount(text, keyword) == CountIn(Lower(text), keyword)

(***************************************************************************)
(* The numbers of the program                                              *)
(***************************************************************************)
\* \d{4} in the citation patterns
YearDigits == 4

\* list(set(all_citations))[:10]
SampleMax == 10

\* [a-z]{4,} in extract_keywords
MinWordLen == 4

\* len(s.strip()) > 20 in generate_summary
MinSentenceLen == 20

\* extract_keywords(self, text, top_n=20)
DefaultTopN == 20

\* self.extract_keywords(text, top_n=15) in analyze
ReportTopN == 15

\* list(concepts.items())[:15] in analyze
ConceptLines == 15

\* data['terms'][:5] in analyze
TermsShown == 5

\* citations['sample_citations'][:5] in analyze
SamplesShown == 5

\* len(sys.argv) < 2 in main
MinArgs == 2

methodologies ==
  <<
     [name |-> "qualitative", keywords |-> <<
        <<"e","t","h","n","o","g","r","a","p","h","y">>,
        <<"e","t","h","n","o","g","r","a","p","h","i","c">>,
        <<"i","n","t","e","r","v","i","e","w">>,
        <<"f","o","c","u","s"," ","g","r","o","u","p">>,
        <<"c","a","s","e"," ","s","t","u","d","y">>,
        <<"p","a","r","t","i","c","i","p","a","n","t"," ","o","b","s","e","r","v","a","t","i","o","n">>,
        <<"g","r","o","u","n","d","e","d"," ","t","h","e","o","r","y">>,
        <<"n","a","r","r","a","t","i","v","e"," ","a","n","a","l","y","s","i","s">>,
        <<"d","i","s","c","o","u","r","s","e"," ","a","n","a","l","y","s","i","s">>,
        <<"c","o","n","t","e","n","t"," ","a","n","a","l","y","s","i","s">>,
        <<"p","h","e","n","o","m","e","n","o","l","o","g","y">>,
        <<"p","h","e","n","o","m","e","n","o","l","o","g","i","c","a","l">>,
        <<"a","u","t","o","e","t","h","n","o","g","r","a","p","h","y">>,
        <<"l","i","f","e"," ","h","i","s","t","o","r","y">>,
        <<"o","r","a","l"," ","h","i","s","t","o","r","y">>,
        <<"f","i","e","l","d","w","o","r","k">>,
        <<"f","i","e","l","d"," ","n","o","t","e","s">> >>],
     [name |-> "quantitative", keywords |-> <<
        <<"s","u","r","v","e","y">>,
        <<"q","u","e","s","t","i","o","n","n","a","i","r","e">>,
        <<"r","e","g","r","e","s","s","i","o","n">>,
        <<"s","t","a","t","i","s","t","i","c","a","l"," ","a","n","a","l","y","s","i","s">>,
        <<"a","n","o","v","a">>,
        <<"c","o","r","r","e","l","a","t","i","o","n">>,
        <<"s","a","m","p","l","e"," ","s","i","z","e">>,
        <<"n"," ","=">>,
        <<"p"," ","<">>,
        <<"p","-","v","a","l","u","e">>,
        <<"s","i","g","n","i","f","i","c","a","n","c","e">>,
        <<"t","-","t","e","s","t">>,
        <<"c","h","i","-","s","q","u","a","r","e">>,
        <<"f","a","c","t","o","r"," ","a","n","a","l","y","s","i","s">>,
        <<"l","o","g","i","s","t","i","c"," ","r","e","g","r","e","s","s","i","o","n">>,
        <<"d","e","s","c","r","i","p","t","i","v","e"," ","s","t","a","t","i","s","t","i","c","s">>,
        <<"i","n","f","e","r","e","n","t","i","a","l"," ","s","t","a","t","i","s","t","i","c","s">>,
        <<"r","a","n","d","o","m"," ","s","a","m","p","l","e">>,
        <<"p","r","o","b","a","b","i","l","i","t","y"," ","s","a","m","p","l","e">>,
        <<"s","t","a","t","i","s","t","i","c","a","l"," ","s","i","g","n","i","f","i","c","a","n","c","e">> >>],
     [name |-> "mixed_methods", keywords |-> <<
        <<"m","i","x","e","d"," ","m","e","t","h","o","d">>,
        <<"m","i","x","e","d","-","m","e","t","h","o","d">>,
        <<"t","r","i","a","n","g","u","l","a","t","i","o","n">>,
        <<"s","e","q","u","e","n","t","i","a","l"," ","d","e","s","i","g","n">>,
        <<"c","o","n","c","u","r","r","e","n","t"," ","d","e","s","i","g","n">>,
        <<"c","o","n","v","e","r","g","e","n","t"," ","d","e","s","i","g","n">>,
        <<"e","x","p","l","a","n","a","t","o","r","y"," ","s","e","q","u","e","n","t","i","a","l">>,
        <<"e","x","p","l","o","r","a","t","o","r","y"," ","s","e","q","u","e","n","t","i","a","l">> >>] >>

theories ==
  <<
     [name |-> "structural_functionalism", keywords |-> <<
        <<"s","t","r","u","c","t","u","r","a","l"," ","f","u","n","c","t","i","o","n","a","l","i","s","m">>,
        <<"f","u","n","c","t","i","o","n","a","l","i","s","m">>,
        <<"f","u","n","c","t","i","o","n","a","l">>,
        <<"p","a","r","s","o","n","s">>,
        <<"m","e","r","t","o","n">>,
        <<"d","u","r","k","h","e","i","m">>,
        <<"s","o","c","i","a","l"," ","s","t","r","u","c","t","u","r","e">>,
        <<"s","o","c","i","a","l"," ","s","y","s","t","e","m">>,
        <<"e","q","u","i","l","i","b","r","i","u","m">>,
        <<"m","a","n","i","f","e","s","t"," ","f","u","n","c","t","i","o","n">>,
        <<"l","a","t","e","n","t"," ","f","u","n","c","t","i","o","n">> >>],
     [name |-> "conflict_theory", keywords |-> <<
        <<"c","o","n","f","l","i","c","t"," ","t","h","e","o","r","y">>,
        <<"m","a","r","x">>,
        <<"m","a","r","x","i","s","t">>,
        <<"c","l","a","s","s"," ","c","o","n","f","l","i","c","t">>,
        <<"p","o","w","e","r"," ","d","y","n","a","m","i","c","s">>,
        <<"i","n","e","q","u","a","l","i","t","y">>,
        <<"o","p","p","r","e","s","s","i","o","n">>,
        <<"h","e","g","e","m","o","n","y">>,
        <<"e","x","p","l","o","i","t","a","t","i","o","n">>,
        <<"d","o","m","i","n","a","t","i","o","n">>,
        <<"c","l","a","s","s"," ","s","t","r","u","g","g","l","e">> >>],
     [name |-> "symbolic_interactionism", keywords |-> <<
        <<"s","y","m","b","o","l","i","c"," ","i","n","t","e","r","a","c","t","i","o","n">>,
        <<"i","n","t","e","r","a","c","t","i","o","n","i","s","m">>,
        <<"g","o","f","f","m","a","n">>,
        <<"b","l","u","m","e","r">>,
        <<"m","e","a","d">>,
        <<"d","r","a","m","a","t","u","r","g","y">>,
        <<"i","m","p","r","e","s","s","i","o","n"," ","m","a","n","a","g","e","m","e","n","t">>,
        <<"s","e","l","f"," ","c","o","n","c","e","p","t">>,
        <<"l","o","o","k","i","n","g"," ","g","l","a","s","s"," ","s","e","l","f">>,
        <<"s","i","g","n","i","f","i","c","a","n","t"," ","o","t","h","e","r">>,
        <<"g","e","n","e","r","a","l","i","z","e","d"," ","o","t","h","e","r">> >>],
     [name |-> "feminist_theory", keywords |-> <<
        <<"f","e","m","i","n","i","s","t">>,
        <<"f","e","m","i","n","i","s","m">>,
        <<"p","a","t","r","i","a","r","c","h","y">>,
        <<"g","e","n","d","e","r"," ","i","n","e","q","u","a","l","i","t","y">>,
        <<"i","n","t","e","r","s","e","c","t","i","o","n","a","l","i","t","y">>,
        <<"w","o","m","e","n","s"," ","s","t","u","d","i","e","s">>,
        <<"m","a","s","c","u","l","i","n","e">>,
        <<"f","e","m","i","n","i","n","e">>,
        <<"g","e","n","d","e","r"," ","r","o","l","e","s">>,
        <<"s","e","x"," ","a","n","d"," ","g","e","n","d","e","r">>,
        <<"g","e","n","d","e","r"," ","s","t","r","a","t","i","f","i","c","a","t","i","o","n">> >>],
     [name |-> "critical_race_theory", keywords |-> <<
        <<"c","r","i","t","i","c","a","l"," ","r","a","c","e">>,
        <<"c","r","t">>,
        <<"r","a","c","i","a","l"," ","f","o","r","m","a","t","i","o","n">>,
        <<"s","y","s","t","e","m","i","c"," ","r","a","c","i","s","m">>,
        <<"s","t","r","u","c","t","u","r","a","l"," ","r","a","c","i","s","m">>,
        <<"r","a","c","i","a","l"," ","i","n","e","q","u","a","l","i","t","y">>,
        <<"c","o","l","o","r","b","l","i","n","d">>,
        <<"w","h","i","t","e"," ","p","r","i","v","i","l","e","g","e">>,
        <<"r","a","c","i","a","l","i","z","a","t","i","o","n">> >>],
     [name |-> "postmodernism", keywords |-> <<
        <<"p","o","s","t","m","o","d","e","r","n">>,
        <<"p","o","s","t","m","o","d","e","r","n","i","s","m">>,
        <<"f","o","u","c","a","u","l","t">>,
        <<"d","e","r","r","i","d","a">>,
        <<"d","e","c","o","n","s","t","r","u","c","t","i","o","n">>,
        <<"d","i","s","c","o","u","r","s","e">>,
        <<"p","o","w","e","r","/","k","n","o","w","l","e","d","g","e">>,
        <<"g","r","a","n","d"," ","n","a","r","r","a","t","i","v","e">>,
        <<"m","e","t","a","n","a","r","r","a","t","i","v","e">>,
        <<"f","r","a","g","m","e","n","t","a","t","i","o","n">> >>],
     [name |-> "rational_choice", keywords |-> <<
        <<"r","a","t","i","o","n","a","l"," ","c","h","o","i","c","e">>,
        <<"r","a","t","i","o","n","a","l"," ","a","c","t","o","r">>,
        <<"c","o","s","t","-","b","e","n","e","f","i","t">>,
        <<"u","t","i","l","i","t","y"," ","m","a","x","i","m","i","z","a","t","i","o","n">>,
        <<"g","a","m","e"," ","t","h","e","o","r","y">>,
        <<"e","x","c","h","a","n","g","e"," ","t","h","e","o","r","y">>,
        <<"s","o","c","i","a","l"," ","e","x","c","h","a","n","g","e">> >>],
     [name |-> "social_constructionism", keywords |-> <<
        <<"s","o","c","i","a","l"," ","c","o","n","s","t","r","u","c","t","i","o","n">>,
        <<"s","o","c","i","a","l","l","y"," ","c","o","n","s","t","r","u","c","t","e","d">>,
        <<"b","e","r","g","e","r">>,
        <<"l","u","c","k","m","a","n","n">>,
        <<"r","e","a","l","i","t","y"," ","c","o","n","s","t","r","u","c","t","i","o","n">>,
        <<"s","o","c","i","a","l"," ","r","e","a","l","i","t","y">> >>] >>

concepts ==
  << <<"s","o","c","i","a","l"," ","c","a","p","i","t","a","l">>,
     <<"c","u","l","t","u","r","a","l"," ","c","a","p","i","t","a","l">>,
     <<"h","a","b","i","t","u","s">>,
     <<"f","i","e","l","d">>,
     <<"s","t","i","g","m","a">>,
     <<"d","e","v","i","a","n","c","e">>,
     <<"a","n","o","m","i","e">>,
     <<"s","o","c","i","a","l"," ","s","o","l","i","d","a","r","i","t","y">>,
     <<"m","e","c","h","a","n","i","c","a","l"," ","s","o","l","i","d","a","r","i","t","y">>,
     <<"o","r","g","a","n","i","c"," ","s","o","l","i","d","a","r","i","t","y">>,
     <<"g","e","m","e","i","n","s","c","h","a","f","t">>,
     <<"g","e","s","e","l","l","s","c","h","a","f","t">>,
     <<"s","o","c","i","a","l"," ","m","o","b","i","l","i","t","y">>,
     <<"s","t","r","a","t","i","f","i","c","a","t","i","o","n">>,
     <<"s","o","c","i","a","l","i","z","a","t","i","o","n">>,
     <<"s","o","c","i","a","l"," ","c","o","n","t","r","o","l">>,
     <<"s","o","c","i","a","l"," ","i","n","s","t","i","t","u","t","i","o","n">>,
     <<"n","o","r","m","s">>,
     <<"v","a","l","u","e","s">>,
     <<"r","o","l","e","s">>,
     <<"s","t","a","t","u","s">>,
     <<"a","c","h","i","e","v","e","d"," ","s","t","a","t","u","s">>,
     <<"a","s","c","r","i","b","e","d"," ","s","t","a","t","u","s">>,
     <<"i","n","-","g","r","o","u","p">>,
     <<"o","u","t","-","g","r","o","u","p">>,
     <<"r","e","f","e","r","e","n","c","e"," ","g","r","o","u","p">>,
     <<"p","r","i","m","a","r","y"," ","g","r","o","u","p">>,
     <<"s","e","c","o","n","d","a","r","y"," ","g","r","o","u","p">>,
     <<"b","u","r","e","a","u","c","r","a","c","y">>,
     <<"r","a","t","i","o","n","a","l","i","z","a","t","i","o","n">>,
     <<"M","c","D","o","n","a","l","d","i","z","a","t","i","o","n">>,
     <<"g","l","o","b","a","l","i","z","a","t","i","o","n">>,
     <<"u","r","b","a","n","i","z","a","t","i","o","n">>,
     <<"m","o","d","e","r","n","i","z","a","t","i","o","n">>,
     <<"s","e","c","u","l","a","r","i","z","a","t","i","o","n">>,
     <<"s","o","c","i","a","l"," ","m","o","v","e","m","e","n","t">>,
     <<"c","o","l","l","e","c","t","i","v","e"," ","b","e","h","a","v","i","o","r">>,
     <<"s","o","c","i","a","l"," ","c","h","a","n","g","e">> >>

stop_words ==
  { <<"t","h","e">>,
    <<"a">>,
    <<"a","n">>,
    <<"a","n","d">>,
    <<"o","r">>,
    <<"b","u","t">>,
    <<"i","n">>,
    <<"o","n">>,
    <<"a","t">>,
    <<"t","o">>,
    <<"f","o","r">>,
    <<"o","f">>,
    <<"w","i","t","h">>,
    <<"b","y">>,
    <<"f","r","o","m">>,
    <<"a","s">>,
    <<"i","s">>,
    <<"w","a","s">>,
    <<"a","r","e">>,
    <<"w","e","r","e">>,
    <<"b","e","e","n">>,
    <<"b","e">>,
    <<"h","a","v","e">>,
    <<"h","a","s">>,
    <<"h","a","d">>,
    <<"d","o">>,
    <<"d","o","e","s">>,
    <<"d","i","d">>,
    <<"w","i","l","l">>,
    <<"w","o","u","l","d">>,
    <<"c","o","u","l","d">>,
    <<"s","h","o","u","l","d">>,
    <<"m","a","y">>,
    <<"m","i","g","h","t">>,
    <<"c","a","n">>,
    <<"t","h","i","s">>,
    <<"t","h","a","t">>,
    <<"t","h","e","s","e">>,
    <<"t","h","o","s","e">>,
    <<"i">>,
    <<"y","o","u">>,
    <<"h","e">>,
    <<"s","h","e">>,
    <<"i","t">>,
    <<"w","e">>,
    <<"t","h","e","y">>,
    <<"w","h","a","t">>,
    <<"w","h","i","c","h">>,
    <<"w","h","o">>,
    <<"w","h","e","n">>,
    <<"w","h","e","r","e">>,
    <<"w","h","y">>,
    <<"h","o","w">>,
    <<"a","l","l">>,
    <<"e","a","c","h">>,
    <<"e","v","e","r","y">>,
    <<"b","o","t","h">>,
    <<"f","e","w">>,
    <<"m","o","r","e">>,
    <<"m","o","s","t">>,
    <<"o","t","h","e","r">>,
    <<"s","o","m","e">>,
    <<"s","u","c","h">>,
    <<"t","h","a","n">>,
    <<"t","o","o">>,
    <<"v","e","r","y">> }

(***************************************************************************)
(* self.research_patterns, in dict order (matched with re.IGNORECASE)      *)
(***************************************************************************)
DigitsPlus == RepInf(Cls(DigitSet), 1)

SpaceStar == RepInf(Cls(SpaceSet), 0)

SpacePlus == RepInf(Cls(SpaceSet), 1)

\* n\s*=\s*\d+
NEquals == Cat(<<Str(<<"n">>), SpaceStar, Str(<<"=">>), SpaceStar, DigitsPlus>>)

research_patterns ==
  << [name |-> "hypothesis", pattern |-> Alt(<<
        Str(<<"h","y","p","o","t","h","e","s","i","s">>),
        Str(<<"h","y","p","o","t","h","e","s","e","s">>),
        Str(<<"w","e"," ","h","y","p","o","t","h","e","s","i","z","e">>),
        Str(<<"h","y","p","o","t","h","e","s","i","z","e","d">>) >>)],
     [name |-> "research_question", pattern |-> Alt(<<
        Str(<<"r","e","s","e","a","r","c","h"," ","q","u","e","s","t","i","o","n">>),
        Cat(<<Str(<<"R","Q">>), DigitsPlus>>),
        Cat(<<Str(<<"t","h","i","s"," ","s","t","u","d","y"," ">>),
              Alt(<<Str(<<"a","s","k","s">>),
                    Str(<<"e","x","a","m","i","n","e","s">>),
                    Str(<<"i","n","v","e","s","t","i","g","a","t","e","s">>)>>)>>) >>)],
     [name |-> "sample", pattern |-> Alt(<<
        Str(<<"s","a","m","p","l","e"," ","s","i","z","e">>),
        NEquals,
        Cat(<<Str(<<"p","a","r","t","i","c","i","p","a","n","t">>), Opt(Str(<<"s">>)),
              SpaceStar, Str(<<"(">>), NEquals, Str(<<")">>)>>) >>)],
     [name |-> "findings", pattern |-> Alt(<<
        Str(<<"f","i","n","d","i","n","g","s">>),
        Str(<<"r","e","s","u","l","t","s"," ","s","h","o","w">>),
        Str(<<"w","e"," ","f","o","u","n","d">>),
        Str(<<"d","i","s","c","o","v","e","r","e","d"," ","t","h","a","t">>),
        Cat(<<Str(<<"d","e","m","o","n","s","t","r","a","t","e">>), Opt(Str(<<"s">>)),
              Str(<<" ","t","h","a","t">>)>>) >>)],
     [name |-> "limitations", pattern |-> Alt(<<
        Str(<<"l","i","m","i","t","a","t","i","o","n">>),
        Str(<<"c","a","v","e","a","t">>),
        Str(<<"s","h","o","r","t","c","o","m","i","n","g">>),
        Str(<<"w","e","a","k","n","e","s","s"," ","o","f"," ","t","h","i","s"," ","s","t","u","d","y">>) >>)],
     [name |-> "future_research", pattern |-> Alt(<<
        Str(<<"f","u","t","u","r","e"," ","r","e","s","e","a","r","c","h">>),
        Str(<<"f","u","r","t","h","e","r"," ","i","n","v","e","s","t","i","g","a","t","i","o","n">>),
        Str(<<"f","u","t","u","r","e"," ","s","t","u","d","i","e","s">>) >>)] >>

(***************************************************************************)
(* The three citation patterns of extract_citations                        *)
(***************************************************************************)
\* [A-Z][a-z]+
AuthorName == Cat(<<Cls(UpperSet), RepInf(Cls(LowerSet), 1)>>)

\* \d{4}
Year == Rep(Cls(DigitSet), YearDigits, YearDigits)

citation_patterns ==
  << \* \([A-Z][a-z]+(?:,?\s+(?:and|&)\s+[A-Z][a-z]+)*,?\s+\d{4}\)
     Cat(<<Str(<<"(">>), AuthorName,
           RepInf(Cat(<<Opt(Str(<<",">>)), SpacePlus,
                        Alt(<<Str(<<"a","n","d">>), Str(<<"&">>)>>),
                        SpacePlus, AuthorName>>), 0),
           Opt(Str(<<",">>)), SpacePlus, Year, Str(<<")">>)>>),
     \* \([A-Z][a-z]+\s+et\s+al\.,?\s+\d{4}\)
     Cat(<<Str(<<"(">>), AuthorName, SpacePlus, Str(<<"e","t">>), SpacePlus,
           Str(<<"a","l",".">>), Opt(Str(<<",">>)), SpacePlus, Year, Str(<<")">>)>>),
     \* [A-Z][a-z]+\s+\(\d{4}\)
     Cat(<<AuthorName, SpacePlus, Str(<<"(">>), Year, Str(<<")">>)>>) >>

(***************************************************************************)
(* Helpers for Python's built-in containers                                *)
(***************************************************************************)
Min(a, b) == IF a <= b THEN a ELSE b

Max(a, b) == IF a >= b THEN a ELSE b

Range(s) == {s[i] : i \in DOMAIN s}

\* xs[:n]
Take(xs, n) == SubSeq(xs, 1, Min(n, Len(xs)))

\* the counts of the keywords of one list in text_lower, in list order
KeywordCounts(text_lower, keywords) ==
  <<>> \o [k \in DOMAIN keywords |-> CountIn(text_lower, keywords[k])]

RECURSIVE SumSeq(_)
SumSeq(ns) == IF ns = <<>> THEN 0 ELSE ns[1] + SumSeq(Tail(ns))

RECURSIVE Dedupe(_)
\* the distinct elements of xs, each at the place of its first occurrence
Dedupe(xs) ==
  IF xs = <<>> THEN <<>>
  ELSE LET front == Dedupe(SubSeq(xs, 1, Len(xs) - 1))
           last  == xs[Len(xs)]
       IN  IF last \in Range(front) THEN front ELSE Append(front, last)

RECURSIVE InsertDesc_unstable(_, _)
\* InsertDesc going in front of the pairs of equal count: an unstable sort
InsertDesc_unstable(ys, p) ==
  IF ys = <<>> THEN <<p>>
  ELSE IF ys[1][2] > p[2] THEN <<ys[1]>> \o InsertDesc_unstable(Tail(ys), p)
       ELSE <<p>> \o ys

RECURSIVE InsertDesc(_, _)
\* p inserted into the descending pair sequence ys after every pair whose
\* count is >= its own (so that equal counts keep their arrival order)
InsertDesc(ys, p) ==
  IF ys = <<>> THEN <<p>>
  ELSE IF ys[1][2] >= p[2] THEN <<ys[1]>> \o InsertDesc(Tail(ys), p)
       ELSE <<p>> \o ys

RECURSIVE SortedDesc(_)
\* sorted(pairs, key=lambda x: x[1], reverse=True): a stable sort by
\* descending count of a sequence of <<key, count>> pairs
SortedDesc(pairs) ==
  IF pairs = <<>> THEN <<>>
  ELSE InsertDesc(SortedDesc(SubSeq(pairs, 1, Len(pairs) - 1)), pairs[Len(pairs)])

\* the place of a character in a character table (0: not in it)
Ord(c) ==
  IF c \in LowerSet THEN CHOOSE i \in DOMAIN LowerChars : LowerChars[i] = c
  ELSE IF c \in UpperSet THEN 26 + (CHOOSE i \in DOMAIN UpperChars : UpperChars[i] = c)
  ELSE IF c \in DigitSet THEN 53
  ELSE 0

\* hash(s) in a process whose string-hash seed is seed, reduced to the slots
\* of a hash table: some function of the string and the seed
StrHash(s, seed) ==
  SumSeq([i \in DOMAIN s |-> (Ord(s[i]) + 1) * (seed + i)]) % 31

\* list(set(xs)): the distinct elements of xs in the iteration order of a set
\* of strings.  A set iterates over its hash table, so the order is that of
\* the elements' hashes, which depend on the process's hash seed; elements
\* that share a slot come in the order they were added.
ListOfSet(xs, seed) ==
  LET keys   == Dedupe(xs)
      bySlot == SortedDesc([k \in DOMAIN keys |-> <<keys[k], 31 - StrHash(keys[k], seed)>>])
  IN  <<>> \o [k \in DOMAIN bySlot |-> bySlot[k][1]]

\* the pairs of a dict-like pair sequence whose count is > 0, in order
Positive(pairs) == SelectSeq(pairs, LAMBDA p : p[2] > 0)

(***************************************************************************)
(* detect_methodology                                                      *)
(***************************************************************************)
\* the methodology_scores dict, as <<category, score>> pairs in dict order
detect_methodology(text) ==
  LET text_lower == Lower(text)
  IN  <<>> \o [k \in DOMAIN methodologies |->
                 <<methodologies[k].name,
                   SumSeq(KeywordCounts(text_lower, methodologies[k].keywords))>>]

(***************************************************************************)
(* identify_theories                                                       *)
(***************************************************************************)
\* one theory's count and matched_terms (its keywords with matches > 0)
TheoryEntry(text_lower, theory, seed) ==
  LET counts  == KeywordCounts(text_lower, theory.keywords)
      matched == {k \in DOMAIN counts : counts[k] > 0}
      matched_terms == SelectSeq(theory.keywords,
                         LAMBDA kw : \E k \in matched : theory.keywords[k] = kw)
  IN  [name  |-> theory.name,
       count |-> SumSeq(counts),
       terms |-> ListOfSet(matched_terms, seed)]

\* the theories_found dict, as records in dict order
identify_theories(text, seed) ==
  LET text_lower == Lower(text)
      all == <<>> \o [k \in DOMAIN theories |-> TheoryEntry(text_lower, theories[k], seed)]
  IN  SelectSeq(all, LAMBDA th : th.count > 0)

(***************************************************************************)
(* extract_concepts                                                        *)
(***************************************************************************)
\* concepts_found before sorting: <<concept, count>> pairs, taxonomy order
ConceptsFound(text) ==
  LET counts == KeywordCounts(Lower(text), concepts)
  IN  Positive([k \in DOMAIN concepts |-> <<concepts[k], counts[k]>>])

extract_concepts(text) == SortedDesc(ConceptsFound(text))

(***************************************************************************)
(* analyze_research_components                                             *)
(***************************************************************************)
analyze_research_components(text) ==
  Positive([k \in DOMAIN research_patterns |->
              <<research_patterns[k].name,
                Len(FindSpans(research_patterns[k].pattern, text, TRUE))>>])

(***************************************************************************)
(* extract_citations                                                       *)
(***************************************************************************)
\* all_citations: the matches of the three patterns, pooled in pattern order
AllCitations(text) ==
  FindAll(citation_patterns[1], text, FALSE)
    \o FindAll(citation_patterns[2], text, FALSE)
    \o FindAll(citation_patterns[3], text, FALSE)

\* extract_citations without the [:10]
extract_citations_unlimited(text, seed) ==
  LET all == AllCitations(text)
  IN  [total_citations  |-> Len(all),
       unique_citations |-> Cardinality(Range(all)),
       sample_citations |-> ListOfSet(all, seed)]

extract_citations(text, seed) ==
  LET all == AllCitations(text)
  IN  [total_citations  |-> Len(all),
       unique_citations |-> Cardinality(Range(all)),
       sample_citations |-> Take(ListOfSet(all, seed), SampleMax)]

(***************************************************************************)
(* extract_keywords                                                        *)
(***************************************************************************)
\* r'\b[a-z]{4,}\b'
WordPattern == Cat(<<WB, RepInf(Cls(LowerSet), MinWordLen), WB>>)

\* the tokens of the text that are not stop words, in order
KeywordTokens(text) ==
  SelectSeq(FindAll(WordPattern, Lower(text), FALSE), LAMBDA w : w \notin stop_words)

\* Counter(words): <<word, count>> pairs in first-encounter order
CounterOf(words) ==
  LET keys == Dedupe(words)
  IN  [k \in DOMAIN keys |->
         <<keys[k], Cardinality({i \in DOMAIN words : words[i] = keys[k]})>>]

\* word_freq.most_common(top_n)
extract_keywords(text, top_n) ==
  Take(SortedDesc(CounterOf(KeywordTokens(text))), top_n)

(***************************************************************************)
(* generate_summary                                                        *)
(***************************************************************************)
RECURSIVE SplitAt(_, _, _, _)
\* re.split: the pieces of text between the matches sp[k..], from position i
SplitAt(text, sp, k, i) ==
  IF k > Len(sp) THEN <<SubSeq(text, i, Len(text))>>
  ELSE <<SubSeq(text, i, sp[k][1] - 1)>> \o SplitAt(text, sp, k + 1, sp[k][2])

\* re.split(r'[.!?]+', text)
SplitSentences(text) ==
  SplitAt(text, FindSpans(RepInf(Cls({".", "!", "?"}), 1), text, FALSE), 1, 1)

\* len(s.strip())
StrippedLen(s) ==
  LET solid == {i \in DOMAIN s : s[i] \notin SpaceSet}
  IN  IF solid = {} THEN 0
      ELSE (CHOOSE i \in solid : \A j \in solid : j <= i)
             - (CHOOSE i \in solid : \A j \in solid : j >= i) + 1

\* len(text.split()): the number of maximal runs of non-whitespace characters
WordCount(text) ==
  Cardinality({i \in DOMAIN text :
                 /\ text[i] \notin SpaceSet
                 /\ (i = 1 \/ text[i - 1] \in SpaceSet)})

\* len(text.split('\n\n'))
ParagraphCount(text) == Len(FindSpans(Str(<<"\n", "\n">>), text, FALSE)) + 1

\* avg_sentence_length is the quotient num / den, kept exact
generate_summary(text) ==
  LET pieces    == SplitSentences(text)
      sentences == SelectSeq(pieces, LAMBDA s : StrippedLen(s) > MinSentenceLen)
  IN  [word_count          |-> WordCount(text),
       sentence_count      |-> Len(sentences),
       avg_sentence_length |-> [num |-> WordCount(text),
                                den |-> Max(Len(sentences), 1)],
       paragraph_count     |-> ParagraphCount(text)]


(***************************************************************************)
(* Documents.  A document is a sequence of at most MaxPieces pieces, each  *)
(* a fragment of a paper; the input file holds one document.               *)
(***************************************************************************)
MaxPieces == 2

MaxHashSeed == 1

MaxTime == 2

\* "interview marx n = 45 participants, p < 0.05. "
PieceInterview ==
  <<"i","n","t","e","r","v","i","e","w"," ","m","a","r","x"," ",
    "n"," ","="," ","4","5"," ","p","a","r","t","i","c","i","p","a","n","t","s",","," ",
    "p"," ","<"," ","0",".","0","5","."," ">>

\* "Survey Inequality Jones (2019) (Smith, 2020) "
PieceSurvey ==
  <<"S","u","r","v","e","y"," ","I","n","e","q","u","a","l","i","t","y"," ",
    "J","o","n","e","s"," ","(","2","0","1","9",")"," ",
    "(","S","m","i","t","h",","," ","2","0","2","0",")"," ">>

\* twenty-one distinct words of four letters: one stop word ("each") and
\* twenty eligible keywords, no taxonomy keyword among them
PieceWords ==
  <<"a","b","l","e"," ","b","a","k","e"," ","c","a","l","m"," ","d","a","w","n"," ",
    "e","a","c","h"," ","f","a","r","m"," ","g","l","a","d"," ","h","e","l","p"," ",
    "i","c","e","d"," ","j","u","m","p"," ","k","e","e","n"," ","l","a","m","p"," ",
    "m","i","l","d"," ","n","e","a","t"," ","o","p","e","n"," ","p","a","t","h"," ",
    "q","u","i","z"," ","r","a","i","n"," ","s","a","l","t"," ","t","a","l","l"," ",
    "u","n","i","t"," ">>

Pieces == {PieceInterview, PieceSurvey, PieceWords}

RECURSIVE Flatten(_)
\* the concatenation of a sequence of pieces
Flatten(ps) == IF ps = <<>> THEN <<>> ELSE ps[1] \o Flatten(Tail(ps))

\* the sequences over S of length at most n
SeqsUpTo(S, n) == UNION {[1..k -> S] : k \in 0..n}

Docs == {Flatten(ps) : ps \in SeqsUpTo(Pieces, MaxPieces)}

\* the string-hash seeds of a process (PYTHONHASHSEED=random)
Seeds == 0..MaxHashSeed

\* the readings of datetime.now()
Times == 1..MaxTime

\* Python's None
None == [none |-> TRUE]

(***************************************************************************)
(* read_file                                                               *)
(***************************************************************************)
\* file: [status, content]; status "ok", "missing" (open raises
\* FileNotFoundError) or "unreadable" (open or read raises another
\* Exception).  The result: the text (ok) or None (~ok), and what it printed.
read_file(file) ==
  CASE file.status = "ok" ->
         [ok |-> TRUE, text |-> file.content, out |-> <<>>]
    [] file.status = "missing" ->
         [ok |-> FALSE, text |-> <<>>, out |-> << <<"Error: File not found.", <<>>>> >>]
    [] OTHER ->
         [ok |-> FALSE, text |-> <<>>, out |-> << <<"Error reading file", <<>>>> >>]

(***************************************************************************)
(* analyze                                                                 *)
(***************************************************************************)
\* the analyses analyze performs on the text, in its order
Analyses(text, seed) ==
  [summary     |-> generate_summary(text),
   methodology |-> detect_methodology(text),
   theories    |-> identify_theories(text, seed),
   concepts    |-> extract_concepts(text),
   components  |-> analyze_research_components(text),
   citations   |-> extract_citations(text, seed),
   keywords    |-> extract_keywords(text, ReportTopN)]

\* Analyses, evaluated once for every document and seed
AnalysesOf == [d \in Docs, seed \in Seeds |-> Analyses(d, seed)] @@ <<>>

\* sum(methodology.values())
TotalMentions(methodology) == SumSeq([k \in DOMAIN methodology |-> methodology[k][2]])

\* max(methodology.items(), key=lambda x: x[1]): the first item of the
\* largest count
MaxItem(pairs) ==
  LET best == CHOOSE i \in DOMAIN pairs :
                /\ \A j \in DOMAIN pairs : pairs[j][2] <= pairs[i][2]
                /\ \A j \in DOMAIN pairs : pairs[j][2] = pairs[i][2] => i <= j
  IN  pairs[best]

\* section 2 of the narrative report
MethodologyLines(methodology) ==
  LET total  == TotalMentions(methodology)
      sorted == SortedDesc(methodology)
      primary == MaxItem(methodology)
  IN  IF total > 0
        THEN [k \in DOMAIN sorted |->
                <<"mentions", <<sorted[k][1], sorted[k][2], total>>>>]
             \o (IF primary[2] > 0
                   THEN << <<"Primary Methodology", <<primary[1]>>>> >>
                   ELSE <<>>)
        ELSE << <<"No clear methodology indicators found.", <<>>>> >>

\* section 3
TheoryLines(found) ==
  LET sorted == SortedDesc([k \in DOMAIN found |-> <<found[k], found[k].count>>])
  IN  IF found # <<>>
        THEN [k \in DOMAIN sorted |->
                <<"theory", <<sorted[k][1].name, sorted[k][1].count,
                              Take(sorted[k][1].terms, TermsShown)>>>>]
        ELSE << <<"No major sociological theories explicitly identified.", <<>>>> >>

\* section 4
ConceptLinesOf(found) ==
  IF found # <<>>
    THEN [k \in DOMAIN Take(found, ConceptLines) |-> <<"concept", found[k]>>]
    ELSE << <<"No standard sociological concepts identified.", <<>>>> >>

\* section 5
ComponentLines(components) ==
  IF components # <<>>
    THEN [k \in DOMAIN components |-> <<"component", components[k]>>]
    ELSE << <<"No clear research components identified.", <<>>>> >>

\* section 6
CitationLines(citations) ==
  << <<"Total Citations Found", <<citations.total_citations>>>>,
     <<"Unique Citations", <<citations.unique_citations>>>> >>
  \o (IF citations.sample_citations # <<>>
        THEN << <<"Sample Citations:", <<>>>> >>
             \o [k \in DOMAIN Take(citations.sample_citations, SamplesShown) |->
                   <<"cite", <<citations.sample_citations[k]>>>>]
        ELSE <<>>)

\* section 7
KeywordLines(keywords) == [k \in DOMAIN keywords |-> <<"keyword", keywords[k]>>]

\* what analyze prints before it reads the file
HeaderLines(filepath, now) ==
  << <<"SOCIOLOGY PAPER ANALYZER", <<>>>>,
     <<"Analyzing", <<filepath>>>>,
     <<"Analysis Date", <<now>>>> >>

\* the seven sections and the closing banner
SectionLines(a) ==
  << <<"1. DOCUMENT STATISTICS", <<>>>>,
     <<"Word Count", <<a.summary.word_count>>>>,
     <<"Sentence Count", <<a.summary.sentence_count>>>>,
     <<"Average Sentence Length", <<a.summary.avg_sentence_length>>>>,
     <<"Paragraph Count", <<a.summary.paragraph_count>>>>,
     <<"2. RESEARCH METHODOLOGY", <<>>>> >>
  \o MethodologyLines(a.methodology)
  \o << <<"3. SOCIOLOGICAL THEORIES", <<>>>> >>
  \o TheoryLines(a.theories)
  \o << <<"4. KEY SOCIOLOGICAL CONCEPTS", <<>>>> >>
  \o ConceptLinesOf(a.concepts)
  \o << <<"5. RESEARCH COMPONENTS", <<>>>> >>
  \o ComponentLines(a.components)
  \o << <<"6. CITATION ANALYSIS", <<>>>> >>
  \o CitationLines(a.citations)
  \o << <<"7. TOP KEYWORDS", <<>>>> >>
  \o KeywordLines(a.keywords)
  \o << <<"ANALYSIS COMPLETE", <<>>>> >>

\* the structured results analyze returns
ReportOf(filepath, now, a) ==
  [filepath    |-> filepath,
   timestamp   |-> now,
   summary     |-> a.summary,
   methodology |-> a.methodology,
   theories    |-> a.theories,
   concepts    |-> a.concepts,
   components  |-> a.components,
   citations   |-> a.citations,
   keywords    |-> a.keywords]

\* analyze(filepath): what it prints and what it returns.  file is what the
\* file system holds at filepath, seed the process's hash seed, now the clock.
analyze(filepath, file, seed, now) ==
  LET rd == read_file(file)
  IN  IF ~rd.ok \/ rd.text = <<>>
        THEN [console |-> HeaderLines(filepath, now) \o rd.out, results |-> None]
        ELSE LET a == AnalysesOf[rd.text, seed]
             IN  [console |-> HeaderLines(filepath, now) \o rd.out \o SectionLines(a),
                  results |-> ReportOf(filepath, now, a)]

(***************************************************************************)
(* export_results                                                          *)
(***************************************************************************)
\* export_results without its except clause: the exception leaves the method
export_results_uncaught(results, writable, held) ==
  IF results # None
    THEN IF writable
           THEN [ret |-> TRUE, out |-> << <<"Results exported to", <<>>>> >>,
                 file |-> results, raised |-> FALSE]
           ELSE [ret |-> FALSE, out |-> <<>>, file |-> held, raised |-> TRUE]
    ELSE [ret |-> FALSE, out |-> <<>>, file |-> held, raised |-> FALSE]

\* writable: whether open(output_file, 'w') and json.dump succeed.  The
\* result: the return value, what it printed, what the output file holds
\* afterwards (before: held), and whether an exception left the method.
export_results(results, writable, held) ==
  IF results # None
    THEN IF writable
           THEN [ret |-> TRUE, out |-> << <<"Results exported to", <<>>>> >>,
                 file |-> results, raised |-> FALSE]
           ELSE [ret |-> FALSE, out |-> << <<"Error exporting results", <<>>>> >>,
                 file |-> held, raised |-> FALSE]
    ELSE [ret |-> FALSE, out |-> <<>>, file |-> held, raised |-> FALSE]

(***************************************************************************)
(* main: the command line                                                  *)
(***************************************************************************)
\* sys.argv.index('--export')
ExportIndex(args) == CHOOSE i \in DOMAIN args :
                       args[i] = "--export" /\ \A j \in 1..(i - 1) : args[j] # "--export"

\* export_file, "" standing for None
export_file(args) ==
  IF \E i \in DOMAIN args : args[i] = "--export"
    THEN IF Len(args) > ExportIndex(args)
           THEN args[ExportIndex(args) + 1]
           ELSE ""
    ELSE ""

\* the command lines main is run with (sys.argv)
ArgvChoices ==
  { <<"sociology_paper_analyzer.py">>,
    <<"sociology_paper_analyzer.py", "paper.txt">>,
    <<"sociology_paper_analyzer.py", "paper.txt", "--export">>,
    <<"sociology_paper_analyzer.py", "paper.txt", "--export", "analysis.json">> }

\* what the file system can hold at the input path
Files ==
  {[status |-> "ok", content |-> d] : d \in Docs}
    \cup {[status |-> "missing", content |-> <<>>],
          [status |-> "unreadable", content |-> <<>>]}

(***************************************************************************)
(* Inputs of the function-level specifications                             *)
(***************************************************************************)
MaxOccur == 2

MaxConceptWords == 4

MaxCitePieces == 3

\* every keyword of the three taxonomies
TaxonomyKeywords ==
  UNION {Range(methodologies[k].keywords) : k \in DOMAIN methodologies}
    \cup UNION {Range(theories[k].keywords) : k \in DOMAIN theories}
    \cup Range(concepts)

\* what stands before and after a keyword in the texts the Matcher is tried
\* on: nothing, non-word characters, word characters
Lefts == { <<>>, <<"a"," ">>, <<"x">>, <<"_">>, <<"(">> }

Rights ==
  { <<>>, <<" ","o","f"," ","s","t","u","d","e","n","t","s">>, <<"r","o","o","m">>,
    <<"4","5">>, <<" ","4","5">>, <<".">> }

\* the keywords the Matcher is tried on: the taxonomies' and "class"
MatcherKeywords == TaxonomyKeywords \cup { <<"c","l","a","s","s">> }

MatcherInputs ==
  {[text |-> l \o kw \o r, keyword |-> kw, n |-> 1] :
     l \in Lefts, kw \in MatcherKeywords, r \in Rights}

\* texts for extract_concepts: up to MaxConceptWords of these, in any order
ConceptPieces ==
  { <<"n","o","r","m","s"," ">>, <<"R","o","l","e","s",","," ">>, <<"f","i","e","l","d","."," ">> }

ConceptDocs == {Flatten(ps) : ps \in SeqsUpTo(ConceptPieces, MaxConceptWords)}

\* "(Smith, 2020) (Jones and Lee, 2019) (Kim et al., 2018) Park (2017) (Cho & Ito 2016) (Roy, 2015) "
CiteSix ==
  <<"(","S","m","i","t","h",","," ","2","0","2","0",")"," ",
    "(","J","o","n","e","s"," ","a","n","d"," ","L","e","e",","," ","2","0","1","9",")"," ",
    "(","K","i","m"," ","e","t"," ","a","l",".",","," ","2","0","1","8",")"," ",
    "P","a","r","k"," ","(","2","0","1","7",")"," ",
    "(","C","h","o"," ","&"," ","I","t","o"," ","2","0","1","6",")"," ",
    "(","R","o","y",","," ","2","0","1","5",")"," ">>

\* "(Adams, 2001) (Baker, 2002) Clark (2003) (Davis et al. 2004) (Evans, 2005) "
CiteFive ==
  <<"(","A","d","a","m","s",","," ","2","0","0","1",")"," ",
    "(","B","a","k","e","r",","," ","2","0","0","2",")"," ",
    "C","l","a","r","k"," ","(","2","0","0","3",")"," ",
    "(","D","a","v","i","s"," ","e","t"," ","a","l","."," ","2","0","0","4",")"," ",
    "(","E","v","a","n","s",","," ","2","0","0","5",")"," ">>

\* "Smith (2020) and (Smith, 2020), see smith 2020. "
CiteTwo ==
  <<"S","m","i","t","h"," ","(","2","0","2","0",")"," ","a","n","d"," ",
    "(","S","m","i","t","h",","," ","2","0","2","0",")",","," ",
    "s","e","e"," ","s","m","i","t","h"," ","2","0","2","0","."," ">>

CitePieces == {CiteSix, CiteFive, CiteTwo}

CiteDocs == {Flatten(ps) : ps \in SeqsUpTo(CitePieces, MaxCitePieces)}

\* no function applied, nothing to apply one to
Idle == [done |-> FALSE]

(***************************************************************************)
(* State                                                                   *)
(***************************************************************************)
VARIABLES
  argv,         \* sys.argv of the running process
  fsIn,         \* what the file system holds at the input path
  outWritable,  \* whether the export file can be written
  hashSeed,     \* the string-hash seed of the running process
  now,          \* the reading of datetime.now() during the call
  pc,           \* where main is: "main", "analyzed", "done", "exit1", "crashed"
  console,      \* the lines printed so far
  results,      \* what analyze returned (None before, and when it returned None)
  exportRet,    \* what export_results returned, "not_called" before
  outFile,      \* what the export file holds (None: not written)
  first,        \* the first analysis on record: [text, results], or None
  input,        \* the arguments of the function applied (function-level specs)
  output        \* its result

vars == <<argv, fsIn, outWritable, hashSeed, now, pc, console, results,
          exportRet, outFile, first, input, output>>

mainVars == <<argv, fsIn, outWritable, hashSeed, now, pc, console, results,
              exportRet, outFile, first>>

(***************************************************************************)
(* main(): one run of the program                                          *)
(***************************************************************************)
Init ==
  /\ argv \in ArgvChoices
  /\ fsIn \in Files
  /\ outWritable \in BOOLEAN
  /\ hashSeed \in Seeds
  /\ now \in Times
  /\ pc = "main"
  /\ console = <<>>
  /\ results = None
  /\ exportRet = "not_called"
  /\ outFile = None
  /\ first = None
  /\ input = Idle
  /\ output = Idle

\* if len(sys.argv) < 2: usage, sys.exit(1)
MainUsage ==
  /\ pc = "main"
  /\ Len(argv) < MinArgs
  /\ console' = console \o << <<"Usage", <<>>>> >>
  /\ pc' = "exit1"
  /\ UNCHANGED <<argv, fsIn, outWritable, hashSeed, now, results, exportRet,
                 outFile, first, input, output>>

\* analyzer = SociologyPaperAnalyzer(); results = analyzer.analyze(filepath)
MainAnalyze ==
  /\ pc = "main"
  /\ Len(argv) >= MinArgs
  /\ LET a == analyze(argv[2], fsIn, hashSeed, now)
     IN  /\ console' = console \o a.console
         /\ results' = a.results
  /\ pc' = "analyzed"
  /\ UNCHANGED <<argv, fsIn, outWritable, hashSeed, now, exportRet, outFile,
                 first, input, output>>

\* if export_file and results: analyzer.export_results(results, export_file)
MainExport ==
  /\ pc = "analyzed"
  /\ export_file(argv) # ""
  /\ results # None
  /\ LET e == export_results(results, outWritable, outFile)
     IN  /\ console' = console \o e.out
         /\ outFile' = e.file
         /\ exportRet' = IF e.raised THEN exportRet ELSE IF e.ret THEN "True" ELSE "False"
         /\ pc' = IF e.raised THEN "crashed" ELSE "done"
  /\ UNCHANGED <<argv, fsIn, outWritable, hashSeed, now, results, first, input, output>>

\* no export asked for, or no results: main returns
MainReturn ==
  /\ pc = "analyzed"
  /\ ~(export_file(argv) # "" /\ results # None)
  /\ pc' = "done"
  /\ UNCHANGED <<argv, fsIn, outWritable, hashSeed, now, console, results,
                 exportRet, outFile, first, input, output>>

Next == MainUsage \/ MainAnalyze \/ MainExport \/ MainReturn

Spec == Init /\ [][Next]_vars

(***************************************************************************)
(* The analyzer called again and again: analyze(filepath) on the file as   *)
(* it is at the time of the call, in the same process or in a new one.     *)
(***************************************************************************)
InitRepeat ==
  /\ argv = <<"sociology_paper_analyzer.py", "paper.txt">>
  /\ fsIn \in Files
  /\ outWritable = TRUE
  /\ hashSeed \in Seeds
  /\ now \in Times
  /\ pc = "main"
  /\ console = <<>>
  /\ results = None
  /\ exportRet = "not_called"
  /\ outFile = None
  /\ first = None
  /\ input = Idle
  /\ output = Idle

\* analyzer.analyze(filepath); the file may have been replaced since the
\* last call, and the clock has its own reading
RepeatAnalyze ==
  /\ \E file \in Files, t \in Times :
       LET a == analyze(argv[2], file, hashSeed, t)
       IN  /\ fsIn' = file
           /\ now' = t
           /\ console' = a.console
           /\ results' = a.results
           /\ first' = IF first = None /\ a.results # None
                         THEN [text |-> file.content, results |-> a.results]
                         ELSE first
  /\ pc' = "analyzed"
  /\ UNCHANGED <<argv, outWritable, hashSeed, exportRet, outFile, input, output>>

\* the program is started again: a new process, a new hash seed
RepeatNewProcess ==
  /\ pc = "analyzed"
  /\ \E seed \in Seeds : hashSeed' = seed
  /\ pc' = "main"
  /\ console' = <<>>
  /\ results' = None
  /\ UNCHANGED <<argv, fsIn, outWritable, now, exportRet, outFile, first, input, output>>

NextRepeat == RepeatAnalyze \/ RepeatNewProcess

SpecRepeat == InitRepeat /\ [][NextRepeat]_vars

(***************************************************************************)
(* Function-level specifications: the inputs are drawn at the start, the   *)
(* actions apply the function.                                             *)
(***************************************************************************)
MainIdle ==
  /\ argv = <<>>
  /\ fsIn = [status |-> "missing", content |-> <<>>]
  /\ outWritable = TRUE
  /\ hashSeed = 0
  /\ now = 1
  /\ pc = "idle"
  /\ console = <<>>
  /\ results = None
  /\ exportRet = "not_called"
  /\ outFile = None
  /\ first = None

\* the Matcher
InitMatcher == MainIdle /\ input \in MatcherInputs /\ output = Idle

\* one more occurrence of the keyword, after a space
MatcherAppend ==
  /\ ~output.done
  /\ input.n < MaxOccur
  /\ input' = [input EXCEPT !.text = @ \o <<" ">> \o input.keyword, !.n = @ + 1]
  /\ UNCHANGED <<mainVars, output>>

MatcherCount ==
  /\ ~output.done
  /\ output' = [done |-> TRUE, value |-> MatchCount(input.text, input.keyword)]
  /\ UNCHANGED <<mainVars, input>>

NextMatcher == MatcherAppend \/ MatcherCount

SpecMatcher == InitMatcher /\ [][NextMatcher]_vars

\* extract_concepts
InitConcepts ==
  MainIdle /\ input \in {[text |-> d] : d \in ConceptDocs} /\ output = Idle

ConceptsExtract ==
  /\ ~output.done
  /\ output' = [done |-> TRUE, value |-> extract_concepts(input.text)]
  /\ UNCHANGED <<mainVars, input>>

NextConcepts == ConceptsExtract

SpecConcepts == InitConcepts /\ [][NextConcepts]_vars

\* extract_citations
InitCitations ==
  MainIdle /\ input \in {[text |-> d, seed |-> s] : d \in CiteDocs, s \in Seeds}
           /\ output = Idle

CitationsExtract ==
  /\ ~output.done
  /\ output' = [done |-> TRUE, value |-> extract_citations(input.text, input.seed)]
  /\ UNCHANGED <<mainVars, input>>

NextCitations == CitationsExtract

SpecCitations == InitCitations /\ [][NextCitations]_vars

(***************************************************************************)
(* Properties                                                              *)
(***************************************************************************)
\* s, all lower case, all upper case
CaseVariants(s) == {s, Lower(s), Upper(s)}

\* C1: the Matcher's count of a keyword in a text is >= 0 and does not change
\* when the case of the text's letters or of the keyword's letters changes.
C1_CaseInvariantCount ==
  output.done =>
    /\ output.value >= 0
    /\ \A t \in CaseVariants(input.text), kw \in CaseVariants(input.keyword) :
         MatchCount(t, kw) = output.value

\* does text contain the string sub
Contains(text, sub) ==
  \E i \in 1..(Len(text) - Len(sub) + 1) : SubSeq(text, i, i + Len(sub) - 1) = sub

\* the score of one category in a methodology_scores dict
ScoreOf(methodology, category) ==
  LET k == CHOOSE j \in DOMAIN methodology : methodology[j][1] = category
  IN  methodology[k][2]

\* C2: for a text that contains "n = 45 participants" and "p < 0.05",
\* detect_methodology gives a quantitative score > 0.
C2_QuantitativeDetected ==
  ( /\ results # None
    /\ Contains(fsIn.content, <<"n"," ","="," ","4","5"," ","p","a","r","t","i","c","i","p","a","n","t","s">>)
    /\ Contains(fsIn.content, <<"p"," ","<"," ","0",".","0","5">>) )
  => ScoreOf(results.methodology, "quantitative") > 0

\* the kinds of the lines printed
Kinds(lines) == {lines[i][1] : i \in DOMAIN lines}

\* the categories printed as "Primary Methodology"
PrimaryPrinted(lines) ==
  {lines[i][2][1] : i \in {j \in DOMAIN lines : lines[j][1] = "Primary Methodology"}}

\* the categories whose count is strictly above every other category's
StrictMaxima(methodology) ==
  {methodology[k][1] : k \in
     {i \in DOMAIN methodology :
        \A j \in DOMAIN methodology : j # i => methodology[j][2] < methodology[i][2]}}

\* C3: the primary methodology analyze reports is the category whose count is
\* the strict maximum of the three; when no category is (total 0, or a shared
\* maximum) none is reported, and for total 0 the 'no methodology' message is.
C3_StrictMaximumPrimary ==
  results # None =>
    /\ PrimaryPrinted(console) = StrictMaxima(results.methodology)
    /\ TotalMentions(results.methodology) = 0 =>
         "No clear methodology indicators found." \in Kinds(console)

\* C4: the empty document is analysed without error: a report with
\* word_count 0, sentence_count 0, avg_sentence_length 0, no methodology,
\* theory, concept or component found and no keywords.
C4_EmptyInputAnalyzed ==
  (pc \in {"analyzed", "done"} /\ fsIn.status = "ok" /\ fsIn.content = <<>>) =>
    /\ results # None
    /\ results.summary.word_count = 0
    /\ results.summary.sentence_count = 0
    /\ results.summary.avg_sentence_length.num = 0
    /\ TotalMentions(results.methodology) = 0
    /\ results.theories = <<>>
    /\ results.concepts = <<>>
    /\ results.components = <<>>
    /\ results.keywords = <<>>

\* the number of keyword lines of the narrative report
KeywordLinesPrinted(lines) == Cardinality({i \in DOMAIN lines : lines[i][1] = "keyword"})

\* C5: the narrative report lists at most the top 15 keywords; the report
\* object analyze returns carries the top 20 (20 entries when the text has at
\* least 20 distinct eligible tokens).
C5_TopFifteenAndTopTwenty ==
  results # None =>
    /\ KeywordLinesPrinted(console) <= ReportTopN
    /\ Len(results.keywords) <= DefaultTopN
    /\ Len(results.keywords) =
         Min(DefaultTopN, Cardinality(Range(KeywordTokens(fsIn.content))))

\* the kinds of line that open the sections of the narrative report
SectionKinds ==
  {"1. DOCUMENT STATISTICS", "2. RESEARCH METHODOLOGY", "3. SOCIOLOGICAL THEORIES",
   "4. KEY SOCIOLOGICAL CONCEPTS", "5. RESEARCH COMPONENTS", "6. CITATION ANALYSIS",
   "7. TOP KEYWORDS", "ANALYSIS COMPLETE"}

\* main got as far as calling export_results
ExportAttempted == pc = "done" /\ export_file(argv) # "" /\ results # None

\* C6: when reading the input fails, a message is printed, analyze returns
\* None, no section of the report is printed and no export is attempted; when
\* writing the export fails, a message is printed and export_results returns
\* False without raising, the narrative report and the results being what
\* analyze produced.
C6_FailureAbortsItsStep ==
  /\ pc # "crashed"
  /\ (pc \in {"analyzed", "done"} /\ fsIn.status # "ok") =>
       /\ Kinds(console) \cap {"Error: File not found.", "Error reading file"} # {}
       /\ Kinds(console) \cap SectionKinds = {}
       /\ results = None
       /\ exportRet = "not_called"
       /\ outFile = None
  /\ (ExportAttempted /\ ~outWritable) =>
       /\ exportRet = "False"
       /\ outFile = None
       /\ console = analyze(argv[2], fsIn, hashSeed, now).console
                      \o << <<"Error exporting results", <<>>>> >>
       /\ results = analyze(argv[2], fsIn, hashSeed, now).results

\* the export was attempted, the file could not be written, and
\* export_results returned False after a complete narrative report
C6_Witness ==
  /\ ExportAttempted
  /\ ~outWritable
  /\ exportRet = "False"
  /\ "ANALYSIS COMPLETE" \in Kinds(console)

\* a report without its timestamp (and its filepath, the same in both)
SansTimestamp(r) ==
  [summary |-> r.summary, methodology |-> r.methodology, theories |-> r.theories,
   concepts |-> r.concepts, components |-> r.components, citations |-> r.citations]

ConceptIndex(c) == CHOOSE k \in DOMAIN concepts : concepts[k] = c

\* C8: what extract_concepts returns is sorted by descending count, holds
\* only concepts of the taxonomy with count > 0, and entries of equal count
\* are in the order of the taxonomy's declaration.
C8_ConceptsRankedStably ==
  output.done =>
    LET out == output.value
    IN  /\ \A k \in DOMAIN out : out[k][2] > 0 /\ out[k][1] \in Range(concepts)
        /\ \A j, k \in DOMAIN out : j < k => out[j][2] >= out[k][2]
        /\ \A j, k \in DOMAIN out :
             (j < k /\ out[j][2] = out[k][2]) =>
               ConceptIndex(out[j][1]) < ConceptIndex(out[k][1])

\* three concepts found, two of them tied, one above: the tie named in the
\* text in the reverse of the taxonomy's order
C8_Witness ==
  /\ output.done
  /\ Len(output.value) = 3
  /\ output.value[1][2] > output.value[2][2]
  /\ output.value[2][2] = output.value[3][2]
  /\ SubSeq(input.text, 1, 5) = <<"R","o","l","e","s">>

\* C9: an occurrence of the keyword that has a word character right before
\* or right after it is not counted, and one that has a non-word character
\* or an end of the text on both sides is counted once.
KeywordAt(text, kw, i) ==
  /\ i + Len(kw) - 1 <= Len(text)
  /\ Lower(SubSeq(text, i, i + Len(kw) - 1)) = Lower(kw)

DelimitedAt(text, kw, i) ==
  /\ i = 1 \/ text[i - 1] \notin WordSet
  /\ i + Len(kw) - 1 = Len(text) \/ text[i + Len(kw)] \notin WordSet

C9_WholeWordOccurrences ==
  output.done =>
    output.value =
      Cardinality({i \in DOMAIN input.text :
                     /\ KeywordAt(input.text, input.keyword, i)
                     /\ DelimitedAt(input.text, input.keyword, i)})

\* is s a string one of the three citation patterns matches somewhere in text
MatchedByAPattern(text, s) ==
  \E p \in DOMAIN citation_patterns, i \in DOMAIN text :
     /\ i + Len(s) - 1 <= Len(text)
     /\ SubSeq(text, i, i + Len(s) - 1) = s
     /\ (i + Len(s)) \in Range(Ends(citation_patterns[p], text, i, FALSE))

\* the number of matches of the three patterns together
PooledMatches(text) ==
  SumSeq([p \in DOMAIN citation_patterns |->
            Len(FindSpans(citation_patterns[p], text, FALSE))])

\* C10: unique_citations <= total_citations, sample_citations has at most
\* min(10, unique_citations) entries, no two the same, each a string matched
\* by one of the three patterns; total_citations counts the pooled matches.
C10_CitationReport ==
  output.done =>
    LET r == output.value
    IN  /\ r.unique_citations <= r.total_citations
        /\ Len(r.sample_citations) <= Min(SampleMax, r.unique_citations)
        /\ \A j, k \in DOMAIN r.sample_citations :
             j # k => r.sample_citations[j] # r.sample_citations[k]
        /\ \A k \in DOMAIN r.sample_citations :
             MatchedByAPattern(input.text, r.sample_citations[k])
        /\ r.total_citations = PooledMatches(input.text)

\* more than ten distinct citations, some matched twice, ten samples, not
\* the first ten in order of appearance
C10_Witness ==
  /\ output.done
  /\ output.value.unique_citations > SampleMax
  /\ output.value.total_citations > output.value.unique_citations
  /\ Len(output.value.sample_citations) = SampleMax
  /\ output.value.sample_citations
       # Take(Dedupe(AllCitations(input.text)), SampleMax)

====
